---------------------------- MODULE Spec2Model ----------------------------
(* graphql-field-timer: the query flattener (src/src/parser.rs), the       *)
(* execution engine and result ranking (src/src/timer.rs) and the driver   *)
(* (src/src/main.rs).                                                       *)
(*                                                                          *)
(* Query text is modelled as a sequence of lexical tokens (whitespace and  *)
(* commas, which GraphQL ignores, are dropped).  A path is a sequence of   *)
(* segments, each segment a token sequence.                                 *)
EXTENDS Integers, Sequences, FiniteSets, TLC

VARIABLES
    doc,            \* main.rs: the parsed Document (its definitions)
    https,          \* Timer.https
    pc,             \* position of main
    defIdx,         \* parse_document: next definition the `for` loop looks at
    stack,          \* call stack of handle_selection_set activations
    field_queries,  \* parse_document: the Vec<String> being built
    flatErrors,     \* history: errors the handlers have returned
    queries,        \* main: the queries the send loop iterates over
    qi,             \* main: index of the query being sent
    results,        \* Timer.results
    sent,           \* history: queries send_query has been called with
    events,         \* history: what has happened in the current request
    duration,       \* send_request_*: the measured duration
    body,           \* send_query: the raw response body
    fatal,          \* history: why main returned Err ("none" if it has not)
    report          \* main: the lines printed, in order

vars == <<doc, https, pc, defIdx, stack, field_queries, flatErrors, queries,
          qi, results, sent, events, duration, body, fatal, report>>

(***************************************************************************)
(* Bounds                                                                  *)
(***************************************************************************)
MaxNodes == 3

MaxStack == 8

MaxDuration == 2

(***************************************************************************)
(* The parsed document (graphql_parser::query AST, as parser.rs reads it)   *)
(***************************************************************************)
NoDirectives == <<>>

DirectiveD == [name |-> "d", arguments |-> <<>>]

Sel(kind, name, alias, arguments, directives, tc, items) ==
    [kind |-> kind, name |-> name, alias |-> alias, arguments |-> arguments,
     directives |-> directives, type_condition |-> tc, items |-> items]

Field(name, items) == Sel("Field", name, "", <<>>, NoDirectives, "", items)

AliasedField(alias, name, arguments, directives) ==
    Sel("Field", name, alias, arguments, directives, "", <<>>)

FragmentSpread(name) ==
    Sel("FragmentSpread", name, "", <<>>, NoDirectives, "", <<>>)

InlineFragment(tc, directives, items) ==
    Sel("InlineFragment", "", "", <<>>, directives, tc, items)

Def(kind, name, vardefs, directives, tc, items) ==
    [kind |-> kind, name |-> name, variable_definitions |-> vardefs,
     directives |-> directives, type_condition |-> tc, items |-> items]

VarV == [name |-> "v", var_type |-> "Int"]

Query(name, vardefs, items) == Def("Query", name, vardefs, NoDirectives, "", items)

Shorthand(items) == Def("SelectionSet", "", <<>>, NoDirectives, "", items)

Mutation(name, vardefs, items) ==
    Def("Mutation", name, vardefs, NoDirectives, "", items)

Fragment(name, tc, items) == Def("Fragment", name, <<>>, NoDirectives, tc, items)


(***************************************************************************)
(* Input documents.  Selection sets are every forest of at most MaxNodes   *)
(* selections built from the leaves and wrappers below; the parser never   *)
(* produces an empty selection set for an operation, a fragment or an      *)
(* inline fragment, so none is generated.                                   *)
(***************************************************************************)
LeafSelections ==
    { Field("b", <<>>),
      AliasedField("x", "c", <<[name |-> "id", value |-> "1"]>>, <<DirectiveD>>),
      FragmentSpread("F"),
      FragmentSpread("G") }

Wrap(w, items) ==
    IF w = "field" THEN Field("a", items)
    ELSE IF w = "on" THEN InlineFragment("T", NoDirectives, items)
    ELSE IF w = "on@" THEN InlineFragment("T", <<DirectiveD>>, items)
    ELSE IF w = "bare" THEN InlineFragment("", NoDirectives, items)
    ELSE InlineFragment("", <<DirectiveD>>, items)

Wrappers == {"field", "on", "on@", "bare", "bare@"}

\* Gen[n].trees: the selections of exactly n nodes; Gen[n].forests: the
\* selection sets of exactly n nodes.
Gen[n \in 0..MaxNodes] ==
    IF n = 0 THEN [trees |-> {}, forests |-> {<<>>}]
    ELSE LET trees == IF n = 1 THEN LeafSelections
                      ELSE { Wrap(w, ss) : w \in Wrappers, ss \in Gen[n-1].forests }
             TreesOf(k) == IF k = n THEN trees ELSE Gen[k].trees
         IN  [trees   |-> trees,
              forests |-> UNION { { <<t>> \o rest : t \in TreesOf(k),
                                                   rest \in Gen[n-k].forests }
                                  : k \in 1..n }]

\* The selection sets of at most n selections.
SelectionSets(n) == UNION { Gen[k].forests : k \in 1..n }

Operations(n) ==
    UNION { { Query("Q", <<VarV>>, ss), Query("", <<>>, ss), Shorthand(ss),
              Mutation("M", <<VarV>>, ss) } : ss \in SelectionSets(n) }

FragmentTables ==
    { fs \o gs :
        fs \in { <<Fragment("F", "A", <<Field("b", <<>>), Field("c", <<>>)>>)>>,
                 <<Fragment("F", "A", <<FragmentSpread("F")>>)>>,
                 <<Fragment("F", "A", <<FragmentSpread("G")>>)>> },
        gs \in { <<>>,
                 <<Fragment("G", "A", <<FragmentSpread("F")>>)>>,
                 <<Fragment("G", "A", <<Field("c", <<>>)>>)>> } }

\* One operation of at most n selections, with or without fragment definitions.
Documents(n) ==
    { <<op>> \o ft : op \in Operations(n), ft \in FragmentTables \cup {<<>>} }

(***************************************************************************)
(* Rendering of path segments                                               *)
(***************************************************************************)
RECURSIVE Flatten(_)
Flatten(ss) == IF ss = <<>> THEN <<>> ELSE Head(ss) \o Flatten(Tail(ss))

ArgumentTokens(arg) == <<arg.name, ":", arg.value>>

arguments_to_str(args) ==
    IF args = <<>> THEN <<>>
    ELSE <<"(">> \o Flatten([i \in 1..Len(args) |-> ArgumentTokens(args[i])])
                 \o <<")">>

DirectiveTokens(dir) == <<"@", dir.name>> \o arguments_to_str(dir.arguments)

directives_to_str(dirs) ==
    Flatten([i \in 1..Len(dirs) |-> DirectiveTokens(dirs[i])])

VariableTokens(var) == <<"$", var.name, ":", var.var_type>>

variable_definitions_to_str(defs) ==
    Flatten([i \in 1..Len(defs) |-> VariableTokens(defs[i])])

\* handle_query's root segment: format!("query {}({}) {}", name, vars, dirs)
QuerySegment(query) ==
    <<"query">> \o (IF query.name = "" THEN <<>> ELSE <<query.name>>)
        \o <<"(">> \o variable_definitions_to_str(query.variable_definitions)
        \o <<")">> \o directives_to_str(query.directives)

\* handle_field's segment: format!("{}{}{} {}", alias, name, args, dirs)
FieldSegment(field) ==
    (IF field.alias = "" THEN <<>> ELSE <<field.alias, ":">>)
        \o <<field.name>> \o arguments_to_str(field.arguments)
        \o directives_to_str(field.directives)

\* handle_fragment_spread's segment: format!("... {} {}", type_condition, dirs)
\* of the fragment DEFINITION; TypeCondition displays as "on <type>".
SpreadSegment(fragment) ==
    <<"...", "on", fragment.type_condition>>
        \o directives_to_str(fragment.directives)

\* handle_inline_fragment's segment
InlineSegment(fragment) ==
    IF fragment.type_condition # ""
    THEN <<"...", "on", fragment.type_condition>>
             \o directives_to_str(fragment.directives)
    ELSE <<>>

(***************************************************************************)
(* graphql_parser::parse_query on the text path_to_query builds: a         *)
(* recogniser of the query grammar, run over the tokens from left to       *)
(* right.  Its state is the grammar position (mode), what the construct    *)
(* being read may be followed by (ctx: "need_ss" a selection set must      *)
(* follow, "opt_ss" one may follow, "no_ss" none may) and the number of    *)
(* open selection sets (depth).                                             *)
(*   document      : selection_set | "query" [name] [vars] directives      *)
(*                   selection_set                                          *)
(*   vars          : "(" many1( "$" name ":" name [ "=" value ] ) ")"       *)
(*   directives    : many( "@" name [arguments] )                           *)
(*   arguments     : "(" many1( name ":" value ) ")"                        *)
(*   selection_set : "{" many1( selection ) "}"                             *)
(*   selection     : [name ":"] name [arguments] directives [selection_set]*)
(*                 | "..." ["on" name] directives selection_set             *)
(*                 | "..." name directives                                  *)
(***************************************************************************)
Punctuators == {"{", "}", "(", ")", ":", "...", "@", "$", "="}

ValueTokens == {"1"}

IsName(x) == x \notin Punctuators \cup ValueTokens

PState(mode, ctx, depth) == [mode |-> mode, ctx |-> ctx, depth |-> depth]

PFail == PState("fail", "", 0)

\* Inside a selection set, after at least one selection.
StepSelNext(depth, tok) ==
    IF tok = "}" THEN (IF depth = 1 THEN PState("end", "", 0)
                       ELSE PState("sel_next", "", depth - 1))
    ELSE IF tok = "..." THEN PState("spread", "", depth)
    ELSE IF IsName(tok) THEN PState("field_name", "", depth)
    ELSE PFail

\* Right after "{": many1 needs a selection.
StepSelFirst(depth, tok) ==
    IF tok = "}" THEN PFail ELSE StepSelNext(depth, tok)

\* After a name, type condition, argument list or directive: more
\* directives, then what ctx allows.
StepTail(ctx, depth, tok) ==
    IF tok = "@" THEN PState("dir_name", ctx, depth)
    ELSE IF tok = "{" /\ ctx \in {"need_ss", "opt_ss"}
    THEN PState("sel_first", "", depth + 1)
    ELSE IF ctx = "need_ss" \/ depth = 0 THEN PFail
    ELSE StepSelNext(depth, tok)

\* After something that may take an argument list.
StepArgsOrTail(ctx, depth, tok) ==
    IF tok = "(" THEN PState("arg_first", ctx, depth)
    ELSE StepTail(ctx, depth, tok)

Step(st, tok) ==
    LET m == st.mode
        c == st.ctx
        d == st.depth
    IN  CASE m = "start" ->
                IF tok = "{" THEN PState("sel_first", "", 1)
                ELSE IF tok = "query" THEN PState("op_name", "need_ss", 0)
                ELSE PFail
          [] m = "op_name" ->
                IF IsName(tok) THEN PState("op_vars", c, d)
                ELSE IF tok = "(" THEN PState("var_first", c, d)
                ELSE StepTail(c, d, tok)
          [] m = "op_vars" ->
                IF tok = "(" THEN PState("var_first", c, d)
                ELSE StepTail(c, d, tok)
          [] m = "var_first" ->
                IF tok = "$" THEN PState("var_name", c, d) ELSE PFail
          [] m = "var_name" ->
                IF IsName(tok) THEN PState("var_colon", c, d) ELSE PFail
          [] m = "var_colon" ->
                IF tok = ":" THEN PState("var_type", c, d) ELSE PFail
          [] m = "var_type" ->
                IF IsName(tok) THEN PState("var_more", c, d) ELSE PFail
          [] m = "var_more" ->
                IF tok = "$" THEN PState("var_name", c, d)
                ELSE IF tok = "=" THEN PState("var_default", c, d)
                ELSE IF tok = ")" THEN PState("tail", c, d)
                ELSE PFail
          [] m = "var_default" ->
                IF tok \in ValueTokens THEN PState("var_next", c, d) ELSE PFail
          [] m = "var_next" ->
                IF tok = "$" THEN PState("var_name", c, d)
                ELSE IF tok = ")" THEN PState("tail", c, d)
                ELSE PFail
          [] m = "tail" -> StepTail(c, d, tok)
          [] m = "dir_name" ->
                IF IsName(tok) THEN PState("dir_args", c, d) ELSE PFail
          [] m = "dir_args" -> StepArgsOrTail(c, d, tok)
          [] m = "arg_first" ->
                IF IsName(tok) THEN PState("arg_colon", c, d) ELSE PFail
          [] m = "arg_colon" ->
                IF tok = ":" THEN PState("arg_value", c, d) ELSE PFail
          [] m = "arg_value" ->
                IF tok \in ValueTokens THEN PState("arg_more", c, d)
                ELSE IF tok = "$" THEN PState("arg_var", c, d)
                ELSE PFail
          [] m = "arg_var" ->
                IF IsName(tok) THEN PState("arg_more", c, d) ELSE PFail
          [] m = "arg_more" ->
                IF IsName(tok) THEN PState("arg_colon", c, d)
                ELSE IF tok = ")" THEN PState("tail", c, d)
                ELSE PFail
          [] m = "sel_first" -> StepSelFirst(d, tok)
          [] m = "sel_next" -> StepSelNext(d, tok)
          [] m = "field_name" ->
                IF tok = ":" THEN PState("alias_name", "opt_ss", d)
                ELSE StepArgsOrTail("opt_ss", d, tok)
          [] m = "alias_name" ->
                IF IsName(tok) THEN PState("field_args", "opt_ss", d) ELSE PFail
          [] m = "field_args" -> StepArgsOrTail("opt_ss", d, tok)
          [] m = "spread" ->
                IF tok = "on" THEN PState("type_name", "need_ss", d)
                ELSE IF IsName(tok) THEN PState("tail", "no_ss", d)
                ELSE StepTail("need_ss", d, tok)
          [] m = "type_name" ->
                IF IsName(tok) THEN PState("tail", "need_ss", d) ELSE PFail
          [] OTHER -> PFail

RECURSIVE Scan(_, _, _)
Scan(t, i, st) ==
    IF st.mode = "fail" THEN FALSE
    ELSE IF i > Len(t) THEN st.mode = "end"
    ELSE Scan(t, i + 1, Step(st, t[i]))

\* Ok iff the text is one operation definition.
parse_query(t) == Scan(t, 1, PState("start", "", 0))

(***************************************************************************)
(* path_to_query: join the segments with " { ", close one brace per        *)
(* segment after the first, parse, and print the parsed document.  The     *)
(* printed form has the tokens of the parsed text (printing only lays them *)
(* out again), so the result is the token sequence; ok is FALSE when the   *)
(* text does not parse.                                                     *)
(***************************************************************************)
RECURSIVE JoinSegments(_)
JoinSegments(path) ==
    IF Len(path) = 0 THEN <<>>
    ELSE IF Len(path) = 1 THEN path[1]
    ELSE path[1] \o <<"{">> \o JoinSegments(Tail(path))

ClosingBraces(path) == [i \in 1..(Len(path) - 1) |-> "}"]

PathText(path) == JoinSegments(path) \o ClosingBraces(path)

path_to_query(path) ==
    IF parse_query(PathText(path))
    THEN [ok |-> TRUE, text |-> PathText(path)]
    ELSE [ok |-> FALSE, text |-> <<>>]

(***************************************************************************)
(* parse_document and the recursive walk.  Each activation of              *)
(* handle_selection_set is a frame: the path it was given, the items it    *)
(* iterates over, the index of the item it is at, and the selection (or    *)
(* operation) whose handler made the call.                                  *)
(***************************************************************************)
Frame(path, items, via) == [path |-> path, items |-> items, idx |-> 1, via |-> via]

Top == stack[Len(stack)]

Cur == Top.items[Top.idx]

Walking == pc = "parse_document" /\ stack # <<>>

AtItem(kind) == Walking /\ Top.idx <= Len(Top.items) /\ Cur.kind = kind

\* parse_document's `fragments` map: name -> definition; collecting into a
\* BTreeMap keeps the last definition of a repeated name.
FragmentIndexes(name) ==
    { i \in 1..Len(doc) : doc[i].kind = "Fragment" /\ doc[i].name = name }

HasFragment(name) == FragmentIndexes(name) # {}

GetFragment(name) ==
    doc[CHOOSE i \in FragmentIndexes(name) : \A j \in FragmentIndexes(name) : j <= i]

\* The definitions the `for` loop of parse_document visits from defIdx on:
\* only Definition::Operation(OperationDefinition::Query(..)).
QueryIndexes == { i \in defIdx..Len(doc) : doc[i].kind = "Query" }

\* The caller's loop moves to its next item.
Advanced(stk) == [stk EXCEPT ![Len(stk)].idx = @ + 1]

\* A handler returns Err: `?` unwinds every activation up to handle_query,
\* whose result parse_document drops.
Unwind(err) ==
    /\ stack' = <<>>
    /\ flatErrors' = flatErrors \cup {err}
    /\ UNCHANGED <<pc, field_queries>>

\* A handler calls handle_selection_set; the call stack is finite.
Call(frame) ==
    /\ IF Len(stack) >= MaxStack
       THEN pc' = "stack_overflow" /\ stack' = stack
       ELSE pc' = pc /\ stack' = Append(stack, frame)
    /\ UNCHANGED <<field_queries, flatErrors>>

RunVars == <<https, queries, qi, results, sent, events, duration, body, fatal, report>>

handle_query ==
    /\ pc = "parse_document" /\ stack = <<>> /\ QueryIndexes # {}
    /\ LET k == CHOOSE i \in QueryIndexes : \A j \in QueryIndexes : i <= j
       IN  /\ defIdx' = k + 1
           /\ stack' = <<Frame(<<QuerySegment(doc[k])>>, doc[k].items, doc[k])>>
    /\ UNCHANGED <<doc, pc, field_queries, flatErrors>>
    /\ UNCHANGED RunVars

handle_field ==
    /\ AtItem("Field")
    /\ LET path == Append(Top.path, FieldSegment(Cur))
           q    == path_to_query(path)
       IN  IF Cur.items = <<>>
           THEN IF q.ok
                THEN /\ field_queries' = Append(field_queries, q.text)
                     /\ stack' = Advanced(stack)
                     /\ UNCHANGED <<pc, flatErrors>>
                ELSE Unwind("parse_error")
           ELSE Call(Frame(path, Cur.items, Cur))
    /\ UNCHANGED <<doc, defIdx>>
    /\ UNCHANGED RunVars

handle_fragment_spread ==
    /\ AtItem("FragmentSpread")
    /\ IF HasFragment(Cur.name)
       THEN LET fragment == GetFragment(Cur.name)
            IN  Call(Frame(Append(Top.path, SpreadSegment(fragment)),
                           fragment.items, Cur))
       ELSE Unwind("fragment_not_found")
    /\ UNCHANGED <<doc, defIdx>>
    /\ UNCHANGED RunVars

handle_inline_fragment ==
    /\ AtItem("InlineFragment")
    /\ Call(Frame(Append(Top.path, InlineSegment(Cur)), Cur.items, Cur))
    /\ UNCHANGED <<doc, defIdx>>
    /\ UNCHANGED RunVars

\* handle_selection_set has no item left and returns Ok(()) to its caller.
handle_selection_set_return ==
    /\ Walking /\ Top.idx > Len(Top.items)
    /\ stack' = IF Len(stack) = 1 THEN <<>>
                ELSE Advanced(SubSeq(stack, 1, Len(stack) - 1))
    /\ UNCHANGED <<doc, pc, defIdx, field_queries, flatErrors>>
    /\ UNCHANGED RunVars

\* parse_document returns field_queries; main binds it to `queries`.
parse_document_return ==
    /\ pc = "parse_document" /\ stack = <<>> /\ QueryIndexes = {}
    /\ queries' = field_queries
    /\ pc' = "timer_new"
    /\ UNCHANGED <<doc, https, defIdx, stack, field_queries, flatErrors, qi,
                   results, sent, events, duration, body, fatal, report>>

NextFlatten ==
    \/ handle_query
    \/ handle_field
    \/ handle_fragment_spread
    \/ handle_inline_fragment
    \/ handle_selection_set_return
    \/ parse_document_return

StartOn(docs) ==
    /\ doc \in docs
    /\ https \in BOOLEAN
    /\ pc = "parse_document"
    /\ defIdx = 1
    /\ stack = <<>>
    /\ field_queries = <<>>
    /\ flatErrors = {}
    /\ queries = <<>>
    /\ qi = 1
    /\ results = <<>>
    /\ sent = <<>>
    /\ events = <<>>
    /\ duration = 0
    /\ body = [json |-> FALSE, data |-> "absent", errors |-> "absent"]
    /\ fatal = "none"
    /\ report = <<>>

InitFlatten == StartOn(Documents(MaxNodes)) /\ https = TRUE

SpecFlatten == InitFlatten /\ [][NextFlatten]_vars

(***************************************************************************)
(* Timer (timer.rs) and the rest of main                                    *)
(***************************************************************************)
FlatVars == <<doc, defIdx, stack, field_queries, flatErrors>>

\* A raw response body: not JSON at all, or a JSON object in which each of
\* the keys "data" and "errors" is absent, null or a non-null value.
KeyStates == {"absent", "null", "value"}

Bodies ==
    { [json |-> FALSE, data |-> "absent", errors |-> "absent"] }
        \cup [json : {TRUE}, data : KeyStates, errors : KeyStates]

\* serde's Option<Value>: a missing key and a null both deserialize to None.
OptionOf(key) == IF key = "value" THEN "Some" ELSE "None"

\* serde_json::from_slice::<GraphQLResponse>
GraphQLResponse(b) == [data |-> OptionOf(b.data), errors |-> OptionOf(b.errors)]

\* Mutant: the errors key is looked at before the data key.
StatusOf_ErrorsFirst(response) ==
    IF response.errors = "Some" THEN "Failure"
    ELSE IF response.data = "Some" THEN "Success"
    ELSE "bail"

\* Mutant: a response without data is fatal even when it carries errors.
StatusOf_ErrorsFatal(response) ==
    IF response.data = "Some" THEN "Success" ELSE "bail"

\* Mutant: a response with neither key is recorded as a Failure.
StatusOf_NoBail(response) ==
    IF response.data = "Some" THEN "Success" ELSE "Failure"

\* send_query's `let status = if .. else if .. else bail!`
StatusOf(response) ==
    IF response.data = "Some" THEN "Success"
    ELSE IF response.errors = "Some" THEN "Failure"
    ELSE "bail"

Result(d, query, response, status) ==
    [duration |-> d, query |-> query, response |-> response, status |-> status]

\* Mutant: the status is ignored, results are ordered by duration alone.
Compare_DurationOnly(a, b) ==
    IF a.duration < b.duration THEN "Less"
    ELSE IF a.duration > b.duration THEN "Greater"
    ELSE "Equal"

\* The comparator Timer::results hands to sort_by
Compare(a, b) ==
    IF a.status = b.status
    THEN (IF a.duration < b.duration THEN "Less"
          ELSE IF a.duration > b.duration THEN "Greater"
          ELSE "Equal")
    ELSE IF a.status = "Failure" THEN "Greater"
    ELSE "Less"

\* slice::sort_by is a stable sort; on a short slice it is an insertion
\* sort: each element moves left past the elements it is Less than.
RECURSIVE InsertTail(_, _)
InsertTail(sorted, x) ==
    IF sorted = <<>> THEN <<x>>
    ELSE IF Compare(x, sorted[Len(sorted)]) = "Less"
    THEN Append(InsertTail(SubSeq(sorted, 1, Len(sorted) - 1), x),
                sorted[Len(sorted)])
    ELSE Append(sorted, x)

RECURSIVE SortFrom(_, _)
SortFrom(sorted, rest) ==
    IF rest = <<>> THEN sorted
    ELSE SortFrom(InsertTail(sorted, Head(rest)), Tail(rest))

sort_by(v) == SortFrom(<<>>, v)

\* main's println! per result; a Failure is followed by its response dump.
ReportLine(r) ==
    [status |-> r.status, duration |-> r.duration, query |-> r.query,
     dump |-> r.status = "Failure"]

\* `?` in main: the error is returned and the process ends.
Abort(cause) ==
    /\ pc' = "aborted"
    /\ fatal' = cause
    /\ UNCHANGED <<https, queries, qi, results, sent, events, duration, body, report>>

Happened(ev, next) ==
    /\ events' = events \o ev
    /\ pc' = next
    /\ UNCHANGED <<https, queries, qi, results, sent, duration, body, fatal, report>>

TimerNew ==
    /\ pc = "timer_new"
    /\ pc' = "loop"
    /\ UNCHANGED <<https, queries, qi, results, sent, events, duration, body,
                   fatal, report>>
    /\ UNCHANGED FlatVars

\* main's loop calls timer.send_query(&query); create_request builds it.
send_query ==
    /\ pc = "loop" /\ qi <= Len(queries)
    /\ sent' = Append(sent, queries[qi])
    /\ events' = <<>>
    /\ pc' = "connect"
    /\ UNCHANGED <<https, queries, qi, results, duration, body, fatal, report>>
    /\ UNCHANGED FlatVars

\* TcpStream::connect(..).await?
Connect ==
    /\ pc = "connect"
    /\ \/ Happened(<<"tcp_connected">>, IF https THEN "tls" ELSE "handshake")
       \/ Abort("transport")
    /\ UNCHANGED FlatVars

\* send_request_https only: tls.connect(..).await?
TlsConnect ==
    /\ pc = "tls"
    /\ \/ Happened(<<"tls_connected">>, "handshake")
       \/ Abort("transport")
    /\ UNCHANGED FlatVars

\* hyper::client::conn::handshake(stream).await?, then the connection task
\* is spawned
Handshake ==
    /\ pc = "handshake"
    /\ \/ Happened(<<"handshake_done">>, "clock_start")
       \/ Abort("transport")
    /\ UNCHANGED FlatVars

\* let before = Instant::now();
ClockStart ==
    /\ pc = "clock_start"
    /\ Happened(<<"clock_started">>, "send_request")
    /\ UNCHANGED FlatVars

\* sender.send_request(request).await? resolves with a Response whose body
\* is still a stream: the request is out and the headers are in.
SendRequest ==
    /\ pc = "send_request"
    /\ \/ Happened(<<"request_sent", "headers_received">>, "clock_stop")
       \/ Abort("transport")
    /\ UNCHANGED FlatVars

\* let duration = Instant::now() - before; Ok((response, duration))
ClockStop ==
    /\ pc = "clock_stop"
    /\ \E d \in 1..MaxDuration : duration' = d
    /\ events' = Append(events, "clock_stopped")
    /\ pc' = "read_body"
    /\ UNCHANGED <<https, queries, qi, results, sent, body, fatal, report>>
    /\ UNCHANGED FlatVars

\* send_query: body::to_bytes(response.body_mut()).await?
ReadBody ==
    /\ pc = "read_body"
    /\ \/ /\ \E b \in Bodies : body' = b
          /\ events' = Append(events, "body_received")
          /\ pc' = "classify"
          /\ UNCHANGED <<https, queries, qi, results, sent, duration, fatal, report>>
       \/ Abort("transport")
    /\ UNCHANGED FlatVars

\* send_query from serde_json::from_slice to its return
Classify ==
    /\ pc = "classify"
    /\ IF ~body.json THEN Abort("decode")
       ELSE LET response == GraphQLResponse(body)
                status   == StatusOf(response)
            IN  IF status = "bail" THEN Abort("unknown_response")
                ELSE /\ results' = Append(results,
                                          Result(duration, queries[qi], response, status))
                     /\ qi' = qi + 1
                     /\ pc' = "loop"
                     /\ UNCHANGED <<https, queries, sent, events, duration, body,
                                    fatal, report>>
    /\ UNCHANGED FlatVars

\* The loop is over: timer.results() sorts in place, main prints each result.
Results ==
    /\ pc = "loop" /\ qi > Len(queries)
    /\ results' = sort_by(results)
    /\ report' = [i \in 1..Len(results) |-> ReportLine(results'[i])]
    /\ pc' = "done"
    /\ UNCHANGED <<https, queries, qi, sent, events, duration, body, fatal>>
    /\ UNCHANGED FlatVars

\* Documents the whole run is explored on.
LeafB == Field("b", <<>>)

LeafC == AliasedField("x", "c", <<[name |-> "id", value |-> "1"]>>, <<DirectiveD>>)

FragmentF == Fragment("F", "A", <<Field("b", <<>>), Field("c", <<>>)>>)

RunDocuments ==
    { <<Query("Q", <<VarV>>, <<Field("a", <<LeafB, LeafC>>)>>)>>,
      <<Query("Q", <<VarV>>, <<LeafB, FragmentSpread("G")>>)>>,
      <<Query("Q", <<VarV>>, <<FragmentSpread("G"), LeafB>>)>>,
      <<Query("Q", <<VarV>>, <<FragmentSpread("G")>>), Query("R", <<VarV>>, <<LeafB>>)>>,
      <<Query("Q", <<VarV>>, <<Field("a", <<FragmentSpread("F")>>)>>), FragmentF>>,
      <<Shorthand(<<LeafB>>)>>,
      <<Query("", <<>>, <<LeafB>>)>>,
      <<Query("Q", <<VarV>>, <<LeafB, InlineFragment("", <<DirectiveD>>, <<LeafB>>)>>)>>,
      <<Query("Q", <<VarV>>, <<LeafB, FragmentSpread("F")>>),
        Fragment("F", "A", <<FragmentSpread("F")>>)>>,
      <<Query("Q", <<VarV>>, <<LeafB, LeafC, Field("a", <<LeafB>>)>>)>>,
      <<Query("Q", <<VarV>>, <<LeafB, LeafC, Field("a", <<LeafB, LeafC>>)>>)>> }

Init == StartOn(RunDocuments)

Next ==
    \/ NextFlatten
    \/ TimerNew
    \/ send_query
    \/ Connect
    \/ TlsConnect
    \/ Handshake
    \/ ClockStart
    \/ SendRequest
    \/ ClockStop
    \/ ReadBody
    \/ Classify
    \/ Results

Spec == Init /\ [][Next]_vars

(***************************************************************************)
(* Claims                                                                   *)
(***************************************************************************)
Flattened == pc \notin {"parse_document", "stack_overflow"}

QueryType(def) == def.kind \in {"Query", "SelectionSet"}

DefinesFragment(d, name) ==
    \E i \in 1..Len(d) : d[i].kind = "Fragment" /\ d[i].name = name

FragmentNamed(d, name) ==
    d[CHOOSE i \in 1..Len(d) : d[i].kind = "Fragment" /\ d[i].name = name]

RECURSIVE CountSel(_, _, _)
\* The leaf fields of a selection set, every spread of a defined fragment
\* standing for that fragment's selection set (fuel bounds the nesting of
\* spreads inside fragments).
CountSel(items, d, fuel) ==
    IF items = <<>> THEN 0
    ELSE LET it == Head(items)
         IN  IF it.kind = "FragmentSpread"
             THEN IF fuel > 0 /\ DefinesFragment(d, it.name)
                  THEN CountSel(FragmentNamed(d, it.name).items, d, fuel - 1)
                           + CountSel(Tail(items), d, fuel)
                  ELSE CountSel(Tail(items), d, fuel)
             ELSE IF it.kind = "Field" /\ it.items = <<>>
             THEN 1 + CountSel(Tail(items), d, fuel)
             ELSE CountSel(it.items \o Tail(items), d, fuel)

RECURSIVE SpreadNames(_)
\* The fragment names spread in a selection set, at any depth.
SpreadNames(items) ==
    IF items = <<>> THEN {}
    ELSE (IF Head(items).kind = "FragmentSpread" THEN {Head(items).name} ELSE {})
             \cup SpreadNames(Head(items).items \o Tail(items))

RECURSIVE Kinds(_)
\* The kinds of selection that occur in a selection set, at any depth.
Kinds(items) ==
    IF items = <<>> THEN {}
    ELSE {Head(items).kind} \cup Kinds(Head(items).items \o Tail(items))

RECURSIVE SumOver(_, _)
SumOver(f, n) == IF n = 0 THEN 0 ELSE f[n] + SumOver(f, n - 1)

\* Leaf fields of the query-type operations of document d, spreads inlined.
LeafCount(d) ==
    SumOver([i \in 1..Len(d) |->
                IF QueryType(d[i]) THEN CountSel(d[i].items, d, 1) ELSE 0], Len(d))

OperationKinds(d) ==
    UNION { IF d[i].kind = "Fragment" THEN {} ELSE Kinds(d[i].items) : i \in 1..Len(d) }

FragmentKinds(d) ==
    UNION { IF d[i].kind = "Fragment" THEN Kinds(d[i].items) ELSE {} : i \in 1..Len(d) }

SpreadsDefined(d) ==
    \A i \in 1..Len(d) : \A n \in SpreadNames(d[i].items) : DefinesFragment(d, n)

NoFragments(d) ==
    /\ \A i \in 1..Len(d) : d[i].kind # "Fragment"
    /\ OperationKinds(d) \subseteq {"Field"}

LastSeg(path) == path[Len(path)]

\* C1: when a spread names a fragment the document does not define, the
\* flattening fails and no send_query call happens for any query of the
\* document.
C1_UnknownFragmentSendsNothing ==
    "fragment_not_found" \in flatErrors =>
        (sent = <<>> /\ pc \in {"parse_document", "aborted"})

ExampleC2 == <<Shorthand(<<Field("a", <<FragmentSpread("F")>>)>>), FragmentF>>

\* C2: a spread of a defined fragment yields one query per leaf field of
\* the fragment, under the path of the spread site; { a { ...F } } with
\* fragment F on A { b c } yields exactly two queries, for a.b and a.c.
C2_SpreadInlinesFragment ==
    (Flattened /\ OperationKinds(doc) \subseteq {"Field", "FragmentSpread"}
               /\ "FragmentSpread" \in OperationKinds(doc)
               /\ FragmentKinds(doc) \subseteq {"Field"}
               /\ SpreadsDefined(doc)) =>
        /\ Len(field_queries) = LeafCount(doc)
        /\ doc = ExampleC2 =>
              /\ Len(field_queries) = 2
              /\ \A k \in 1..2 : \E i \in 1..Len(field_queries[k]) :
                    field_queries[k][i] = "a"
              /\ \E i \in 1..Len(field_queries[1]) : field_queries[1][i] = "b"
              /\ \E i \in 1..Len(field_queries[2]) : field_queries[2][i] = "c"

\* C3: for a document without fragments, the number of queries
\* parse_document returns is the number of leaf fields of the document.
C3_OneQueryPerLeaf ==
    (Flattened /\ NoFragments(doc)) => Len(field_queries) = LeafCount(doc)

\* C4: data present (non-null) gives Success; otherwise errors present
\* gives Failure; neither is fatal and records nothing.
C4_Classification ==
    [][(pc = "classify" /\ body.json) =>
          IF body.data = "value"
          THEN results' = Append(results, Result(duration, queries[qi],
                                          GraphQLResponse(body), "Success"))
          ELSE IF body.errors = "value"
          THEN results' = Append(results, Result(duration, queries[qi],
                                          GraphQLResponse(body), "Failure"))
          ELSE pc' = "aborted" /\ results' = results]_vars

C4_Witness ==
    /\ pc = "loop" /\ Len(results) = 2
    /\ body = [json |-> TRUE, data |-> "null", errors |-> "value"]
    /\ results[1].status = "Success" /\ results[1].response.errors = "None"
    /\ results[2].status = "Failure"

FatalCondition ==
    \/ pc = "classify" /\ ~body.json
    \/ pc = "classify" /\ body.data # "value" /\ body.errors # "value"
    \/ fatal' # fatal

\* C6: a transport error, an undecodable body or a body with neither data
\* nor errors ends the run: no result for that query, no later query sent,
\* no report.
C6_FatalStopsRun ==
    /\ [][FatalCondition =>
            /\ pc' = "aborted" /\ fatal' # "none"
            /\ results' = results /\ sent' = sent /\ report' = report]_vars
    /\ [][pc # "aborted"]_vars
    /\ [](pc = "aborted" => report = <<>>)

C6_Witness ==
    /\ pc = "aborted" /\ fatal = "unknown_response"
    /\ Len(results) = 1 /\ Len(sent) = 2 /\ Len(queries) = 4
    /\ report = <<>>

Ranked(in, out) ==
    /\ Len(out) = Len(in)
    /\ \A i, j \in 1..Len(out) : i < j =>
          /\ ~ (out[i].status = "Failure" /\ out[j].status = "Success")
          /\ out[i].status = out[j].status => out[i].duration <= out[j].duration
    /\ \E p \in [1..Len(in) -> 1..Len(in)] :
          /\ \A i, j \in 1..Len(in) : i # j => p[i] # p[j]
          /\ \A i \in 1..Len(in) : out[i] = in[p[i]]
          /\ \A i, j \in 1..Len(in) :
                (i < j /\ out[i].status = out[j].status
                       /\ out[i].duration = out[j].duration) => p[i] < p[j]

\* C7: Timer::results returns a permutation of the accumulated results,
\* every Success before every Failure, ascending duration within a status,
\* equal results in execution order.
C7_RankedOrder ==
    [][(pc = "loop" /\ pc' = "done") =>
          /\ Ranked(results, results')
          /\ Len(report') = Len(results')
          /\ \A i \in 1..Len(results') : report'[i].query = results'[i].query]_vars

C7_Witness ==
    /\ pc = "done" /\ Len(results) = 3
    /\ results[1].status = "Success" /\ results[1].duration = 1
    /\ results[2].status = "Success" /\ results[2].duration = 2
    /\ results[3].status = "Failure" /\ results[3].duration = 1
    /\ results[1].query = queries[3]
    /\ results[2].query = queries[1]
    /\ results[3].query = queries[2]

ClaimedOrder ==
    <<"tcp_connected">> \o (IF https THEN <<"tls_connected">> ELSE <<>>)
        \o <<"handshake_done", "clock_started", "request_sent",
             "headers_received", "body_received", "clock_stopped">>

\* C8: in every request the connection (and TLS) is set up, then the clock
\* starts, then the request is sent, then headers and the whole body are
\* received, then the clock stops.
C8_ClockCoversBody ==
    /\ Len(events) <= Len(ClaimedOrder)
    /\ \A i \in 1..Len(events) : events[i] = ClaimedOrder[i]

ClaimedInlineSegment(fragment) ==
    <<"...">> \o (IF fragment.type_condition # ""
                  THEN <<"on", fragment.type_condition>> ELSE <<>>)
              \o directives_to_str(fragment.directives)

\* C9: every inline fragment, with or without a type condition, adds the
\* segment "..." [on <type>] directives, and every leaf field below it
\* yields a query.
C9_InlineFragmentSegment ==
    /\ \A i \in 1..Len(stack) :
          stack[i].via.kind = "InlineFragment" =>
              LastSeg(stack[i].path) = ClaimedInlineSegment(stack[i].via)
    /\ (Flattened /\ Len(doc) = 1 /\ doc[1].kind = "Query"
                  /\ doc[1].variable_definitions # <<>>
                  /\ OperationKinds(doc) \subseteq {"Field", "InlineFragment"}) =>
          Len(field_queries) = LeafCount(doc)

\* C10: the walk returns for every document, also when fragments spread
\* themselves or each other.
C10_WalkReturns == pc # "stack_overflow"

=============================================================================
